---------------------------- MODULE Spec2Model ----------------------------
(***************************************************************************)
(* Model of the battle report parser of wt-battle-report (src/parser.rs).  *)
(*                                                                         *)
(* A text is a sequence of characters (one-character strings).  The       *)
(* grammar is written, as in the source, with nom's combinators: a parser  *)
(* is a value built from them, and Parse(g, s, i, b) applies the parser g  *)
(* to the text s at position i (1-based index of the first unconsumed      *)
(* character) in a build b; it returns a record                            *)
(*     [st |-> "ok" | "err" | "panic", rest |-> position, val |-> value]   *)
(* where "err" is nom's recoverable Err::Error (val: the contexts of the   *)
(* error, innermost first) and "panic" is the abort of an arithmetic       *)
(* overflow in a build with overflow checks.                               *)
(*                                                                         *)
(* A u32 is a pair <<hi, lo>> of 16-bit limbs (value hi * 2^16 + lo), so   *)
(* that the full 32-bit range and its overflow are represented exactly.    *)
(***************************************************************************)
EXTENDS Integers, Sequences, FiniteSets, TLC

VARIABLES
    text,    \* the input text handed to the parser
    build,   \* "debug" (overflow checks: abort) or "release" (wrap around)
    unit,    \* the parser function that is applied to the text
    inp,     \* description of how the text was put together
    pc,      \* "start" before the parser has run, "done" after; in
             \* battle_report, the stage that is to be parsed next
    input,   \* battle_report: position of the first unconsumed character
    parsed,  \* battle_report: the values of the stages parsed so far
    out      \* the value returned by the parser

vars == <<text, build, unit, inp, pc, input, parsed, out>>

-----------------------------------------------------------------------------
(* Characters *)

NL == "\n"
CR == "\r"
TAB == "\t"
QUOTE == "\""
SP == " "

Digit == {"0", "1", "2", "3", "4", "5", "6", "7", "8", "9"}

DigitVal(c) ==
    CASE c = "0" -> 0 [] c = "1" -> 1 [] c = "2" -> 2 [] c = "3" -> 3
      [] c = "4" -> 4 [] c = "5" -> 5 [] c = "6" -> 6 [] c = "7" -> 7
      [] c = "8" -> 8 [] c = "9" -> 9

Lower == {"a", "b", "c", "d", "e", "f", "g", "h", "i", "j", "k", "l", "m",
          "n", "o", "p", "q", "r", "s", "t", "u", "v", "w", "x", "y", "z"}

Upper == {"A", "B", "C", "D", "E", "F", "G", "H", "I", "J", "K", "L", "M",
          "N", "O", "P", "Q", "R", "S", "T", "U", "V", "W", "X", "Y", "Z"}

Alpha == Lower \cup Upper

Space == {SP, TAB}

\* const INDENT: &str = "    ";
INDENT == <<SP, SP, SP, SP>>

-----------------------------------------------------------------------------
(* Parser results *)

Ok(rest, val) == [st |-> "ok", rest |-> rest, val |-> val]

Err == [st |-> "err", rest |-> 0, val |-> <<>>]

Panic == [st |-> "panic", rest |-> 0, val |-> <<>>]

\* the result of a parser whose sub-parser did not succeed: the `?` operator
Fail(r) == IF r.st = "panic" THEN Panic ELSE [st |-> "err", rest |-> 0, val |-> r.val]

-----------------------------------------------------------------------------
(* 32-bit unsigned arithmetic on limb pairs *)

Limb == 256 * 256

Zero == <<0, 0>>

\* u32::checked_mul by a small factor k; ovf tells that the product does not
\* fit in 32 bits, val is the product modulo 2^32
MulSmall(v, k) ==
    LET p  == v[2] * k
        hi == v[1] * k + (p \div Limb)
    IN  [ovf |-> hi >= Limb, val |-> <<hi % Limb, p % Limb>>]

\* u32 addition; ovf tells that the sum does not fit in 32 bits, val is the
\* sum modulo 2^32
AddU32(a, b) ==
    LET lo == a[2] + b[2]
        hi == a[1] + b[1] + (lo \div Limb)
    IN  [ovf |-> hi >= Limb, val |-> <<hi % Limb, lo % Limb>>]

-----------------------------------------------------------------------------
(* nom's primitive parsers *)

\* tag(lit)
Tag(s, i, lit) ==
    IF i + Len(lit) - 1 <= Len(s) /\ SubSeq(s, i, i + Len(lit) - 1) = lit
    THEN Ok(i + Len(lit), lit)
    ELSE Err

\* the first position from i on whose character is not in the class cls
RECURSIVE SkipWhile(_, _, _)
SkipWhile(s, i, cls) ==
    IF i > Len(s) \/ s[i] \notin cls THEN i ELSE SkipWhile(s, i + 1, cls)

\* take_while(cls): zero or more characters of the class
TakeWhile(s, i, cls) ==
    LET j == SkipWhile(s, i, cls) IN Ok(j, SubSeq(s, i, j - 1))

\* digit1, alpha1, space1: one or more characters of the class
TakeWhile1(s, i, cls) ==
    LET j == SkipWhile(s, i, cls)
    IN  IF j = i THEN Err ELSE Ok(j, SubSeq(s, i, j - 1))

\* lit occurs in s at position j
OccursAt(s, j, lit) ==
    j + Len(lit) - 1 <= Len(s) /\ s[j] = lit[1] /\ SubSeq(s, j, j + Len(lit) - 1) = lit

\* the first position from i on at which lit occurs, 0 when there is none;
\* the text is searched sixteen positions at a time
RECURSIVE FindFrom(_, _, _)
FindFrom(s, i, lit) ==
    IF i + Len(lit) - 1 > Len(s) THEN 0
    ELSE IF \E j \in i..(i + 15) : OccursAt(s, j, lit)
         THEN CHOOSE j \in i..(i + 15) :
                  OccursAt(s, j, lit) /\ \A k \in i..(j - 1) : ~OccursAt(s, k, lit)
         ELSE FindFrom(s, i + 16, lit)

\* take_until(lit): everything before the first occurrence of lit
TakeUntil(s, i, lit) ==
    LET j == FindFrom(s, i, lit)
    IN  IF j = 0 THEN Err ELSE Ok(j, SubSeq(s, i, j - 1))

\* line_ending: "\n" or "\r\n"
LineEnding(s, i) ==
    IF Tag(s, i, <<NL>>).st = "ok" THEN Ok(i + 1, <<NL>>)
    ELSE IF Tag(s, i, <<CR, NL>>).st = "ok" THEN Ok(i + 2, <<CR, NL>>)
    ELSE Err

\* the digit loop of nom's u32: value.checked_mul(10).and_then(checked_add(d)),
\* an error as soon as the value leaves the 32-bit range
RECURSIVE U32Digits(_, _, _)
U32Digits(s, i, acc) ==
    IF i > Len(s) \/ s[i] \notin Digit THEN Ok(i, acc)
    ELSE LET m == MulSmall(acc, 10)
             a == AddU32(m.val, <<0, DigitVal(s[i])>>)
         IN  IF m.ovf \/ a.ovf THEN Err ELSE U32Digits(s, i + 1, a.val)

\* character::complete::u32
U32(s, i) ==
    IF i > Len(s) \/ s[i] \notin Digit THEN Err ELSE U32Digits(s, i, Zero)

\* the digit loop of nom's u8, on plain integers
RECURSIVE U8Digits(_, _, _)
U8Digits(s, i, acc) ==
    IF i > Len(s) \/ s[i] \notin Digit THEN Ok(i, acc)
    ELSE LET v == acc * 10 + DigitVal(s[i])
         IN  IF v >= 256 THEN Err ELSE U8Digits(s, i + 1, v)

\* character::complete::u8
U8(s, i) ==
    IF i > Len(s) \/ s[i] \notin Digit THEN Err ELSE U8Digits(s, i, 0)

-----------------------------------------------------------------------------
(* nom's combinators: a parser is a record naming the combinator (k) and   *)
(* its operands                                                            *)

tag(lit) == [k |-> "tag", lit |-> lit]
take_until(lit) == [k |-> "take_until", lit |-> lit]
take_while(cls) == [k |-> "take_while", cls |-> cls]
digit1 == [k |-> "while1", cls |-> Digit]
alpha1 == [k |-> "while1", cls |-> Alpha]
space1 == [k |-> "while1", cls |-> Space]
hex_digit1 == [k |-> "while1", cls |-> Digit \cup {"a", "b", "c", "d", "e", "f", "A", "B", "C", "D", "E", "F"}]
u32 == [k |-> "u32"]
u8 == [k |-> "u8"]
line_ending == [k |-> "line_ending"]
success(v) == [k |-> "success", v |-> v]

\* the parsers gs in sequence; the value is the tuple of the values at the
\* positions keep, or the value itself when keep is a single position
seq(gs, keep) == [k |-> "seq", gs |-> gs, keep |-> keep]
tuple(gs) == seq(gs, [j \in 1..Len(gs) |-> j])
pair(a, b) == seq(<<a, b>>, <<1, 2>>)
preceded(a, b) == seq(<<a, b>>, <<2>>)
terminated(a, b) == seq(<<a, b>>, <<1>>)
delimited(a, b, c) == seq(<<a, b, c>>, <<2>>)
separated_pair(a, sep, b) == seq(<<a, sep, b>>, <<1, 3>>)

alt(gs) == [k |-> "alt", gs |-> gs]
opt(g) == [k |-> "opt", g |-> g]
many0(g) == [k |-> "many0", g |-> g]
many1(g) == [k |-> "many1", g |-> g]
many_m_n(min, max, g) == [k |-> "many_m_n", min |-> min, max |-> max, g |-> g]
separated_list1(sep, g) == [k |-> "separated_list1", sep |-> sep, g |-> g]
map(g, f) == [k |-> "map", g |-> g, f |-> f]
value(v, g) == [k |-> "value", v |-> v, g |-> g]
context(name, g) == [k |-> "context", name |-> name, g |-> g]
map_parser(g, h) == [k |-> "map_parser", g |-> g, h |-> h]

\* a parser written as a function of the source (see CallFn)
fn(name) == [k |-> "fn", name |-> name]

\* Option values
None == <<>>
Some(v) == <<v>>

-----------------------------------------------------------------------------
(* Closures of the source that map parsed values *)

Reward(silverlions, research) ==
    [silverlions |-> silverlions, research |-> research]

\* |(hours, minutes)| hours * 60 + minutes on u32: an overflow aborts a build
\* with overflow checks and wraps around in a build without them
TotalMinutes(hours, minutes, b) ==
    LET m == MulSmall(hours, 60)
        a == AddU32(m.val, minutes)
    IN  IF (m.ovf \/ a.ovf) /\ b = "debug"
        THEN [st |-> "panic", val |-> Zero]
        ELSE [st |-> "ok", val |-> a.val]

\* |rp| rp.unwrap_or_default()
UnwrapOrDefault(o) == IF o = None THEN Zero ELSE o[1]

\* Row { time, vehicle, enemy_vehicle, reward } of a detail row's columns
\* (time, vehicle, enemy vehicle, optional x, reward)
Row(v) == [time |-> v[1], vehicle |-> v[2], enemy_vehicle |-> v[3], reward |-> v[5]]

Table(name, rows) == [name |-> name, rows |-> rows]

\* a variant of TableEvents that takes the rows of the table last to first
TableEventsLastFirst(t) ==
    [j \in 1..Len(t.rows) |->
        [time |-> t.rows[Len(t.rows) + 1 - j].time, kind |-> t.name,
         vehicle |-> t.rows[Len(t.rows) + 1 - j].vehicle,
         enemy |-> Some(t.rows[Len(t.rows) + 1 - j].enemy_vehicle),
         reward |-> t.rows[Len(t.rows) + 1 - j].reward]]

\* the events of one table: every row tagged with the name of the table
TableEvents(t) ==
    [j \in 1..Len(t.rows) |->
        [time |-> t.rows[j].time, kind |-> t.name, vehicle |-> t.rows[j].vehicle,
         enemy |-> Some(t.rows[j].enemy_vehicle), reward |-> t.rows[j].reward]]

\* tables.into_iter().map(...).flatten().collect()
RECURSIVE Events(_)
Events(tables) ==
    IF tables = <<>> THEN <<>> ELSE TableEvents(Head(tables)) \o Events(Tail(tables))

\* rows.into_iter().map(|(time, name, reward)| Award { time, name, reward })
Awards(rows) ==
    [j \in 1..Len(rows) |->
        [time |-> rows[j][1], name |-> rows[j][2], reward |-> rows[j][3]]]

Min(a, b) == IF a <= b THEN a ELSE b

\* a variant of Vehicles that takes the name from the Time Played row
VehiclesNameFromTimePlayed(activity_rows, time_played_rows, b) ==
    LET n == Min(Len(activity_rows), Len(time_played_rows))
        sum(j) == AddU32(activity_rows[j][3].research, time_played_rows[j][4])
    IN  IF b = "debug" /\ \E j \in 1..n : sum(j).ovf
        THEN [st |-> "panic", val |-> <<>>]
        ELSE [st |-> "ok",
              val |-> [j \in 1..n |->
                        [name |-> time_played_rows[j][1],
                         activity |-> time_played_rows[j][2],
                         time_played |-> time_played_rows[j][3],
                         reward |-> Reward(activity_rows[j][3].silverlions, sum(j).val)]]]

\* activity_rows.into_iter().zip(time_played_rows.into_iter()).map(
\*     |((_, name, reward), (_, activity, time_played, additional_rp))| Vehicle {..})
\* the zip ends with the shorter of the two; reward.research + additional_rp
\* is a u32 addition: an overflow aborts a build with overflow checks and
\* wraps around in a build without them
Vehicles(activity_rows, time_played_rows, b) ==
    LET n == Min(Len(activity_rows), Len(time_played_rows))
        sum(j) == AddU32(activity_rows[j][3].research, time_played_rows[j][4])
    IN  IF b = "debug" /\ \E j \in 1..n : sum(j).ovf
        THEN [st |-> "panic", val |-> <<>>]
        ELSE [st |-> "ok",
              val |-> [j \in 1..n |->
                        [name |-> activity_rows[j][2],
                         activity |-> time_played_rows[j][2],
                         time_played |-> time_played_rows[j][3],
                         reward |-> Reward(activity_rows[j][3].silverlions, sum(j).val)]]]

\* |(name, research)| VehicleResearch { name, research }
VehicleResearch(name, research) == [name |-> name, research |-> research]

\* |(vehicle, _, name, _, research)| ModificationResearch { .. }
ModificationResearch(vehicle, name, research) ==
    [vehicle |-> vehicle, name |-> name, research |-> research]

\* Vec: unwrap_or_default()
UnwrapOrDefaultVec(o) == IF o = None THEN <<>> ELSE o[1]

\* BattleReport { .. } of the values of the seventeen stages
BattleReport(p) ==
    [session_id |-> p[16],
     result |-> p[1][1],
     mission_name |-> p[1][2],
     events |-> p[2],
     awards |-> p[3],
     reward_for_winning |-> p[5],
     other_awards |-> p[6],
     vehicles |-> p[4],
     activity |-> p[8],
     damaged_vehicles |-> p[9],
     automatic_repair |-> p[10],
     automatic_purchases |-> p[11],
     vehicle_research |-> UnwrapOrDefaultVec(p[13]),
     modification_research |-> UnwrapOrDefaultVec(p[14]),
     earned_rewards |-> p[7],
     balance |-> p[17][1]]

\* the closures, by name: the value v mapped in a build b
ApplyFn(f, v, b) ==
    CASE f = "total_minutes" -> TotalMinutes(v[1], v[2], b)
      [] f = "unwrap_or_default" -> [st |-> "ok", val |-> UnwrapOrDefault(v)]
      [] f = "reward" -> [st |-> "ok", val |-> Reward(v[1], v[2])]
      [] f = "row" -> [st |-> "ok", val |-> Row(v)]
      [] f = "events" -> [st |-> "ok", val |-> Events(v)]
      [] f = "awards" -> [st |-> "ok", val |-> Awards(v)]
      [] f = "vehicles" -> Vehicles(v[1], v[4], b)
      [] f = "vehicle_research" -> [st |-> "ok", val |-> VehicleResearch(v[1], v[2])]
      [] f = "modification_research" ->
            [st |-> "ok", val |-> ModificationResearch(v[1], v[3], v[5])]
      [] f = "total" -> [st |-> "ok", val |-> <<Reward(v[1], v[5]), v[3]>>]
      [] f = "battle_report" -> [st |-> "ok", val |-> BattleReport(v)]

-----------------------------------------------------------------------------
(* Application of a parser to a text *)

RECURSIVE Parse(_, _, _, _)
RECURSIVE ParseSeq(_, _, _, _, _)
RECURSIVE ParseAlt(_, _, _, _, _)
RECURSIVE ParseMany(_, _, _, _)
RECURSIVE ParseManyMN(_, _, _, _, _)
RECURSIVE ParseSepList(_, _, _, _)
RECURSIVE CallFn(_, _, _, _)
RECURSIVE table(_, _, _)

\* the parsers gs[n..] in sequence: the value is the tuple of their values
ParseSeq(gs, n, s, i, b) ==
    IF n > Len(gs) THEN Ok(i, <<>>)
    ELSE LET h == Parse(gs[n], s, i, b)
         IN  IF h.st # "ok" THEN h
             ELSE LET t == ParseSeq(gs, n + 1, s, h.rest, b)
                  IN  IF t.st # "ok" THEN t ELSE Ok(t.rest, <<h.val>> \o t.val)

\* alt: the first of gs[n..] that succeeds, else the error of the last one
ParseAlt(gs, n, s, i, b) ==
    LET h == Parse(gs[n], s, i, b)
    IN  IF h.st # "err" \/ n = Len(gs) THEN h ELSE ParseAlt(gs, n + 1, s, i, b)

\* the loop of many0 and many1: apply g until it fails; an application that
\* consumes nothing is an error
ParseMany(g, s, i, b) ==
    LET h == Parse(g, s, i, b)
    IN  IF h.st = "panic" THEN Panic
        ELSE IF h.st = "err" THEN Ok(i, <<>>)
        ELSE IF h.rest = i THEN Err
        ELSE LET t == ParseMany(g, s, h.rest, b)
             IN  IF t.st # "ok" THEN t ELSE Ok(t.rest, <<h.val>> \o t.val)

\* the loop of many_m_n after count applications: at most g.max applications,
\* an error when g fails before g.min of them
ParseManyMN(g, count, s, i, b) ==
    IF count >= g.max THEN Ok(i, <<>>)
    ELSE LET h == Parse(g.g, s, i, b)
         IN  IF h.st = "panic" THEN Panic
             ELSE IF h.st = "err" THEN (IF count < g.min THEN Fail(h) ELSE Ok(i, <<>>))
             ELSE IF h.rest = i THEN Err
             ELSE LET t == ParseManyMN(g, count + 1, s, h.rest, b)
                  IN  IF t.st # "ok" THEN t ELSE Ok(t.rest, <<h.val>> \o t.val)

\* the loop of separated_list1 after an element: separator and element until
\* either fails; a separator that consumes nothing is an error
ParseSepList(g, s, i, b) ==
    LET p == Parse(g.sep, s, i, b)
    IN  IF p.st = "panic" THEN Panic
        ELSE IF p.st = "err" THEN Ok(i, <<>>)
        ELSE IF p.rest = i THEN Err
        ELSE LET h == Parse(g.g, s, p.rest, b)
             IN  IF h.st = "panic" THEN Panic
                 ELSE IF h.st = "err" THEN Ok(i, <<>>)
                 ELSE LET t == ParseSepList(g, s, h.rest, b)
                      IN  IF t.st # "ok" THEN t ELSE Ok(t.rest, <<h.val>> \o t.val)

Parse(g, s, i, b) ==
    CASE g.k = "tag" -> Tag(s, i, g.lit)
      [] g.k = "take_until" -> TakeUntil(s, i, g.lit)
      [] g.k = "take_while" -> TakeWhile(s, i, g.cls)
      [] g.k = "while1" -> TakeWhile1(s, i, g.cls)
      [] g.k = "u32" -> U32(s, i)
      [] g.k = "u8" -> U8(s, i)
      [] g.k = "line_ending" -> LineEnding(s, i)
      [] g.k = "success" -> Ok(i, g.v)
      [] g.k = "seq" ->
            LET r == ParseSeq(g.gs, 1, s, i, b)
            IN  IF r.st # "ok" THEN r
                ELSE IF Len(g.keep) = 1 THEN Ok(r.rest, r.val[g.keep[1]])
                ELSE Ok(r.rest, [j \in 1..Len(g.keep) |-> r.val[g.keep[j]]])
      [] g.k = "alt" -> ParseAlt(g.gs, 1, s, i, b)
      [] g.k = "opt" ->
            LET r == Parse(g.g, s, i, b)
            IN  IF r.st = "panic" THEN Panic
                ELSE IF r.st = "err" THEN Ok(i, None)
                ELSE Ok(r.rest, Some(r.val))
      [] g.k = "many0" -> ParseMany(g.g, s, i, b)
      [] g.k = "many1" ->
            LET h == Parse(g.g, s, i, b)
            IN  IF h.st # "ok" THEN h
                ELSE LET t == ParseMany(g.g, s, h.rest, b)
                     IN  IF t.st # "ok" THEN t ELSE Ok(t.rest, <<h.val>> \o t.val)
      [] g.k = "many_m_n" -> ParseManyMN(g, 0, s, i, b)
      [] g.k = "separated_list1" ->
            LET h == Parse(g.g, s, i, b)
            IN  IF h.st # "ok" THEN h
                ELSE LET t == ParseSepList(g, s, h.rest, b)
                     IN  IF t.st # "ok" THEN t ELSE Ok(t.rest, <<h.val>> \o t.val)
      [] g.k = "map" ->
            LET r == Parse(g.g, s, i, b)
            IN  IF r.st # "ok" THEN r
                ELSE LET o == ApplyFn(g.f, r.val, b)
                     IN  IF o.st = "panic" THEN Panic ELSE Ok(r.rest, o.val)
      [] g.k = "value" ->
            LET r == Parse(g.g, s, i, b)
            IN  IF r.st # "ok" THEN r ELSE Ok(r.rest, g.v)
      [] g.k = "context" ->
            LET r == Parse(g.g, s, i, b)
            IN  IF r.st = "err" THEN [r EXCEPT !.val = Append(@, g.name)] ELSE r
      [] g.k = "map_parser" ->
            LET r == Parse(g.g, s, i, b)
            IN  IF r.st # "ok" THEN r
                ELSE LET o == Parse(g.h, r.val, 1, b)
                     IN  IF o.st # "ok" THEN o ELSE Ok(r.rest, o.val)
      [] g.k = "fn" -> CallFn(g.name, s, i, b)

-----------------------------------------------------------------------------
(* The grammar: separators, timestamps, rewards *)

row_separator == context("row separator", value(<<>>, pair(tag(INDENT), many0(space1))))

row_ending == context("row ending", value(<<>>, pair(many0(space1), line_ending)))

timestamp == map(separated_pair(u32, tag(<<":">>), u32), "total_minutes")

TagSL == <<SP, "S", "L">>
TagRP == <<SP, "R", "P">>
TagCRP == <<SP, "C", "R", "P">>
TagPlus == <<SP, "+", SP>>
TagEquals == <<SP, "=", SP>>

\* many1(tuple((tag(" + "), delimited(tag("("), alpha1, tag(")")), digit1)))
Additions ==
    context("additions",
        many1(tuple(<<tag(TagPlus), delimited(tag(<<"(">>), alpha1, tag(<<")">>)), digit1>>)))

\* a variant of parse_silverlions_simple in which the unit is optional
parse_silverlions_simple_unit_optional ==
    context("silverlions simple", terminated(u32, opt(tag(TagSL))))

parse_silverlions_simple == context("silverlions simple", terminated(u32, tag(TagSL)))

\* a variant of parse_silverlions_complex that keeps the base amount
parse_silverlions_complex_base ==
    seq(<<u32, Additions, preceded(tag(TagEquals), parse_silverlions_simple)>>, <<1>>)

parse_silverlions_complex ==
    seq(<<digit1, Additions, preceded(tag(TagEquals), parse_silverlions_simple)>>, <<3>>)

parse_silverlions ==
    context("silverlions", alt(<<parse_silverlions_simple, parse_silverlions_complex>>))

parse_research_points_simple == context("research points simple", terminated(u32, tag(TagRP)))

parse_research_points_complex ==
    seq(<<digit1, Additions, preceded(tag(TagEquals), parse_research_points_simple)>>, <<3>>)

parse_research_points ==
    context("research points",
        alt(<<parse_research_points_simple, parse_research_points_complex>>))

\* a variant of parse_crp that accepts a missing figure
parse_crp_optional == map(opt(terminated(u32, tag(TagCRP))), "unwrap_or_default")

parse_crp == terminated(u32, tag(TagCRP))

parse_reward ==
    map(alt(<<pair(parse_silverlions,
                   map(opt(preceded(row_separator, parse_research_points)),
                       "unwrap_or_default")),
              pair(success(Zero), parse_research_points)>>),
        "reward")

\* the reward column of a row
reward_column == context("reward column", terminated(parse_reward, row_ending))

-----------------------------------------------------------------------------
(* The grammar: rows and tables *)

\* the character U+00D7 that marks some detail rows
TIMES == "U+00D7"

table_header ==
    tuple(<<context("table name", terminated(take_until(INDENT), row_separator)),
            context("row count", terminated(u32, row_separator)),
            context("total reward", terminated(parse_reward, row_ending))>>)

table_row ==
    map(tuple(<<context("time column",
                    preceded(tag(INDENT), terminated(timestamp, row_separator))),
                context("vehicle column", terminated(take_until(INDENT), row_separator)),
                context("enemy vehicle column",
                    terminated(take_until(INDENT), row_separator)),
                context("optional x", opt(pair(tag(<<TIMES>>), row_separator))),
                reward_column>>),
        "row")

\* count as usize; a count of 2^16 or more stands for itself: no text of the
\* model has that many rows
AsUsize(count) == IF count[1] = 0 THEN count[2] ELSE Limb

\* a variant of table that takes as many rows as there are
table_any_rows(s, i, b) ==
    LET h == Parse(context("table header", table_header), s, i, b)
    IN  IF h.st # "ok" THEN h
        ELSE LET rows == Parse(context("table rows", many0(table_row)), s, h.rest, b)
             IN  IF rows.st # "ok" THEN rows
                 ELSE LET e == Parse(line_ending, s, rows.rest, b)
                      IN  IF e.st # "ok" THEN e
                          ELSE Ok(e.rest, Table(h.val[1], rows.val))

\* fn table: the header, exactly as many rows as it declares, an empty line
table(s, i, b) ==
    LET h == Parse(context("table header", table_header), s, i, b)
    IN  IF h.st # "ok" THEN h
        ELSE LET count == AsUsize(h.val[2])
                 rows == Parse(context("table rows", many_m_n(count, count, table_row)),
                               s, h.rest, b)
             IN  IF rows.st # "ok" THEN rows
                 ELSE LET e == Parse(line_ending, s, rows.rest, b)
                      IN  IF e.st # "ok" THEN e
                          ELSE Ok(e.rest, Table(h.val[1], rows.val))

parse_events == map(context("event tables", many0(fn("table"))), "events")

short_row ==
    tuple(<<preceded(tag(INDENT), terminated(timestamp, row_separator)),
            terminated(take_until(INDENT), row_separator),
            terminated(parse_reward, row_ending)>>)

award_table ==
    map(terminated(context("award header", preceded(table_header, many1(short_row))),
                   line_ending),
        "awards")

TagTimePlayed == <<"T", "i", "m", "e", SP, "P", "l", "a", "y", "e", "d">>

\* the rows of the Time Played table: name, activity, time played, reward
time_played_row ==
    tuple(<<preceded(tag(INDENT), terminated(take_until(INDENT), row_separator)),
            terminated(terminated(u8, tag(<<"%">>)), row_separator),
            terminated(timestamp, row_separator),
            terminated(parse_research_points, row_ending)>>)

vehicle_tables ==
    map(tuple(<<preceded(table_header, many1(short_row)),
                line_ending,
                tuple(<<context("Time Played literal", tag(TagTimePlayed)),
                        pair(many1(space1), digit1),
                        row_separator,
                        parse_research_points,
                        row_ending>>),
                many1(time_played_row),
                line_ending>>),
        "vehicles")

-----------------------------------------------------------------------------
(* Parsers written as functions *)

CallFn(name, s, i, b) ==
    CASE name = "table" -> table(s, i, b)

-----------------------------------------------------------------------------
(* The grammar: the sections of a battle report *)

\* the literals of the sections
\* "Victory"
TagVictory ==
    <<"V", "i", "c", "t", "o", "r", "y">>

\* "Defeat"
TagDefeat ==
    <<"D", "e", "f", "e", "a", "t">>

\* " in the "
TagInThe ==
    <<SP, "i", "n", SP, "t", "h", "e", SP>>

\* " mission!"
TagMission ==
    <<SP, "m", "i", "s", "s", "i", "o", "n", "!">>

\* "Other awards"
TagOtherAwards ==
    <<"O", "t", "h", "e", "r", SP, "a", "w", "a", "r", "d", "s">>

\* "Reward for winning"
TagRewardForWinning ==
    <<"R", "e", "w", "a", "r", "d", SP, "f", "o", "r", SP, "w", "i", "n", "n", "i",
      "n", "g">>

\* "Earned: "
TagEarned ==
    <<"E", "a", "r", "n", "e", "d", ":", SP>>

\* "Activity: "
TagActivity ==
    <<"A", "c", "t", "i", "v", "i", "t", "y", ":", SP>>

\* "Damaged Vehicles: "
TagDamagedVehicles ==
    <<"D", "a", "m", "a", "g", "e", "d", SP, "V", "e", "h", "i", "c", "l", "e", "s",
      ":", SP>>

\* "Automatic repair of all vehicles: -"
TagAutomaticRepair ==
    <<"A", "u", "t", "o", "m", "a", "t", "i", "c", SP, "r", "e", "p", "a", "i", "r",
      SP, "o", "f", SP, "a", "l", "l", SP, "v", "e", "h", "i", "c", "l", "e", "s",
      ":", SP, "-">>

\* "Automatic purchasing of ammo and 'Crew Replenishment': -"
TagAutomaticPurchase ==
    <<"A", "u", "t", "o", "m", "a", "t", "i", "c", SP, "p", "u", "r", "c", "h", "a",
      "s", "i", "n", "g", SP, "o", "f", SP, "a", "m", "m", "o", SP, "a", "n", "d",
      SP, QUOTE, "C", "r", "e", "w", SP, "R", "e", "p", "l", "e", "n", "i", "s",
      "h", "m", "e", "n", "t", QUOTE, ":", SP, "-">>

\* "Researched unit: "
TagResearchedUnit ==
    <<"R", "e", "s", "e", "a", "r", "c", "h", "e", "d", SP, "u", "n", "i", "t", ":",
      SP>>

\* "Researching progress: "
TagResearchingProgress ==
    <<"R", "e", "s", "e", "a", "r", "c", "h", "i", "n", "g", SP, "p", "r", "o", "g",
      "r", "e", "s", "s", ":", SP>>

\* "Used items: "
TagUsedItems ==
    <<"U", "s", "e", "d", SP, "i", "t", "e", "m", "s", ":", SP>>

\* "Total: "
TagTotal ==
    <<"T", "o", "t", "a", "l", ":", SP>>

\* a variant of battle_result that takes every result for a Win
battle_result_win ==
    value("Win", alt(<<tag(TagVictory), tag(TagDefeat)>>))

battle_result ==
    alt(<<value("Win", tag(TagVictory)),
          value("Loss", tag(TagDefeat))>>)

\* the first line: the result, the mission, an empty line
result_line ==
    seq(<<battle_result,
          tag(TagInThe),
          take_until(TagMission),
          tag(TagMission),
          line_ending,
          line_ending>>, <<1, 3>>)

\* a variant of parse_other_awards that accepts a report without the line
parse_other_awards_optional ==
    opt(delimited(pair(tag(TagOtherAwards), row_separator),
                  parse_reward,
                  pair(row_ending, line_ending)))

parse_other_awards ==
    delimited(pair(tag(TagOtherAwards), row_separator),
              parse_reward,
              pair(row_ending, line_ending))

parse_reward_for_winning ==
    delimited(pair(tag(TagRewardForWinning),
                   row_separator),
              parse_reward,
              pair(row_ending, line_ending))

\* the characters of a vehicle name
VehicleNameChars ==
    Lower \cup Upper \cup Digit \cup {SP, "#", "&", "'", "(", ")", ",", "-", ".", "/", "_"}

vehicle_name == take_while(VehicleNameChars)

TagComma == <<",", SP>>

parse_earned ==
    map(delimited(tag(TagEarned),
                  separated_pair(parse_silverlions_simple, tag(TagComma), parse_crp),
                  line_ending),
        "reward")

parse_activity ==
    delimited(tag(TagActivity),
              terminated(u8, tag(<<"%">>)),
              line_ending)

parse_damaged_vehicles ==
    delimited(tag(TagDamagedVehicles),
              separated_list1(tag(TagComma), vehicle_name),
              line_ending)

parse_automatic_repair ==
    delimited(tag(TagAutomaticRepair),
              parse_silverlions_simple,
              line_ending)

parse_automatic_purchase ==
    delimited(tag(TagAutomaticPurchase),
              parse_silverlions_simple,
              line_ending)

parse_vehicle_research ==
    map(terminated(separated_pair(vehicle_name, tag(<<":", SP>>),
                                  parse_research_points_simple),
                   line_ending),
        "vehicle_research")

parse_researched_units ==
    delimited(pair(tag(TagResearchedUnit),
                   line_ending),
              context("researched vehicles", many1(parse_vehicle_research)),
              line_ending)

TagDash == <<SP, "-", SP>>

parse_modification_research ==
    map(terminated(tuple(<<map_parser(take_until(TagDash), vehicle_name),
                           tag(TagDash),
                           context("name", take_while(Lower \cup Upper \cup Digit \cup {SP})),
                           tag(<<":", SP>>),
                           parse_research_points_simple>>),
                   line_ending),
        "modification_research")

parse_researched_modifications ==
    delimited(pair(tag(TagResearchingProgress),
                   line_ending),
              many1(parse_modification_research),
              line_ending)

TagSession == <<"S", "e", "s", "s", "i", "o", "n", ":", SP>>

parse_used_items ==
    preceded(pair(tag(TagUsedItems), line_ending),
             take_until(TagSession))

\* a variant of parse_session_id that skips the text before the session line
parse_session_id_skipping ==
    preceded(take_until(TagSession), delimited(tag(TagSession), hex_digit1, line_ending))

parse_session_id == delimited(tag(TagSession), hex_digit1, line_ending)

parse_total ==
    map(preceded(tag(TagTotal),
                 tuple(<<parse_silverlions_simple, tag(TagComma), parse_crp,
                         tag(TagComma), parse_research_points_simple>>)),
        "total")

\* fn battle_report as one parser: the first line, the sixteen parsers of
\* the tuple, the BattleReport of their values
battle_report ==
    map(tuple(<<context("first line", result_line),
                context("events", parse_events),
                context("awards", award_table),
                context("activity and time played", vehicle_tables),
                context("reward for winning", opt(parse_reward_for_winning)),
                context("other awards", parse_other_awards),
                context("earned", parse_earned),
                context("activity", parse_activity),
                context("damaged vehicles", parse_damaged_vehicles),
                context("automatic repair", parse_automatic_repair),
                context("automatic purchase", parse_automatic_purchase),
                line_ending,
                context("researched vehicles", opt(parse_researched_units)),
                context("researched modifications", opt(parse_researched_modifications)),
                context("used items", opt(parse_used_items)),
                context("session id", parse_session_id),
                context("total", parse_total)>>),
        "battle_report")

-----------------------------------------------------------------------------
(* Input texts: rendering of numbers and of reward texts *)

DigitChar(d) ==
    CASE d = 0 -> "0" [] d = 1 -> "1" [] d = 2 -> "2" [] d = 3 -> "3"
      [] d = 4 -> "4" [] d = 5 -> "5" [] d = 6 -> "6" [] d = 7 -> "7"
      [] d = 8 -> "8" [] d = 9 -> "9"

\* the decimal digits of a non-zero u32, by repeated division by ten
RECURSIVE DecDigits(_)
DecDigits(v) ==
    IF v = Zero THEN <<>>
    ELSE LET t == (v[1] % 10) * Limb + v[2]
         IN  Append(DecDigits(<<v[1] \div 10, t \div 10>>), DigitChar(t % 10))

\* the decimal text of a u32
Dec(v) == IF v = Zero THEN <<"0">> ELSE DecDigits(v)

\* n copies of the character c
Rep(c, n) == [k \in 1..n |-> c]

\* the concatenation of a sequence of texts
RECURSIVE Concat(_)
Concat(ts) == IF ts = <<>> THEN <<>> ELSE Head(ts) \o Concat(Tail(ts))

\* the largest u32, 4294967295
U32Max == <<Limb - 1, Limb - 1>>

\* amounts that occur in the generated texts: 0, 5, 10, 61, 1010, 65536, u32::MAX
AmountPool == {Zero, <<0, 5>>, <<0, 10>>, <<0, 61>>, <<0, 1010>>, <<1, 0>>, U32Max}

\* base amounts of an itemized reward: 5 and a figure beyond the u32 range
BasePool == {<<"5">>, Rep("9", 11)}

LabelPool == {<<"P", "A">>, <<"B", "o", "o", "s", "t", "e", "r">>}

BonusPool == {<<0, 5>>, <<0, 7>>}

\* the largest number of bonus terms of a generated itemized reward
MaxAdditions == 2

\* the largest number of spaces beyond the indent in a generated separator
MaxPad == 2

AdditionSeqs ==
    UNION {[1..k -> [label : LabelPool, bonus : BonusPool]] : k \in 1..MaxAdditions}

\* " + (<label>)<bonus>" for every bonus term
RECURSIVE AdditionsText(_)
AdditionsText(adds) ==
    IF adds = <<>> THEN <<>>
    ELSE TagPlus \o <<"(">> \o Head(adds).label \o <<")">> \o Dec(Head(adds).bonus)
         \o AdditionsText(Tail(adds))

\* the shapes of one amount of a reward text
SimpleForms == [form : {"simple", "nounit"}, n : AmountPool]

ComplexForms ==
    [form : {"complex", "noclose", "nounitclose"}, n : AmountPool,
     base : BasePool, adds : AdditionSeqs]

Absent == [form |-> "absent"]

AmountText(a, unitTag) ==
    CASE a.form = "absent" -> <<>>
      [] a.form = "simple" -> Dec(a.n) \o unitTag
      [] a.form = "nounit" -> Dec(a.n)
      [] a.form = "complex" ->
            a.base \o AdditionsText(a.adds) \o TagEquals \o Dec(a.n) \o unitTag
      [] a.form = "noclose" -> a.base \o AdditionsText(a.adds)
      [] a.form = "nounitclose" ->
            a.base \o AdditionsText(a.adds) \o TagEquals \o Dec(a.n)

\* a reward text: currency part, then (when there is a research part) a run
\* of sep spaces and the research part
RewardText(c) ==
    AmountText(c.sl, TagSL)
    \o (IF c.rp.form = "absent" THEN <<>>
        ELSE Rep(SP, c.sep) \o AmountText(c.rp, TagRP))

\* a fixed itemized research part, "3 + (Booster)2 = 5 RP"
FixedComplexRP ==
    [form |-> "complex", n |-> <<0, 5>>, base |-> <<"3">>,
     adds |-> <<[label |-> <<"B", "o", "o", "s", "t", "e", "r">>, bonus |-> <<0, 2>>]>>]

RewardCases ==
    \* simple currency, simple research (or none)
    [sl : SimpleForms, rp : SimpleForms \cup {Absent}, sep : 3..(4 + MaxPad)]
    \* itemized currency, with no, a simple or an itemized research part
    \cup [sl : ComplexForms,
          rp : {Absent, [form |-> "simple", n |-> <<0, 61>>], FixedComplexRP},
          sep : {4}]
    \* simple currency, itemized research
    \cup [sl : {[form |-> "simple", n |-> <<0, 1010>>]}, rp : ComplexForms, sep : {4}]
    \* research only
    \cup [sl : {Absent}, rp : SimpleForms, sep : {0}]

\* hours of the generated timestamps: 0, 1, 10, 13, 71582788 (the largest
\* whose sixtyfold fits in 32 bits), 71582789, u32::MAX
HourPool == {Zero, <<0, 1>>, <<0, 10>>, <<0, 13>>, <<1092, 17476>>, <<1092, 17477>>, U32Max}

\* minutes of the generated timestamps: 0, 7, 15, 16, 59, 60, u32::MAX
MinutePool == {Zero, <<0, 7>>, <<0, 15>>, <<0, 16>>, <<0, 59>>, <<0, 60>>, U32Max}

\* pad leading zeros before the minutes ("10:07")
TimestampCases == [h : HourPool, m : MinutePool, pad : 0..1]

TimestampText(c) == Dec(c.h) \o <<":">> \o Rep("0", c.pad) \o Dec(c.m)

-----------------------------------------------------------------------------
(* Input texts: rows and tables *)

\* the largest number of rows that a generated table declares
MaxRows == 2

Sep == Rep(SP, 4)

\* a simple reward "<sl> SL    <rp> RP", or "<sl> SL" when rp is zero
SimpleRewardText(sl, rp) ==
    Dec(sl) \o TagSL \o (IF rp = Zero THEN <<>> ELSE Sep \o Dec(rp) \o TagRP)

\* the detail rows of the generated event tables
\*     1:02    A 1    B    1010 SL    61 RP
\*     10:07    C    D-2    x    5 SL
RowPool ==
    {[time |-> <<0, 62>>, ts |-> <<"1", ":", "0", "2">>,
      vehicle |-> <<"A", SP, "1">>, enemy |-> <<"B">>, x |-> FALSE,
      sl |-> <<0, 1010>>, rp |-> <<0, 61>>],
     [time |-> <<0, 607>>, ts |-> <<"1", "0", ":", "0", "7">>,
      vehicle |-> <<"C">>, enemy |-> <<"D", "-", "2">>, x |-> TRUE,
      sl |-> <<0, 5>>, rp |-> Zero]}

RowText(r) ==
    INDENT \o r.ts \o Sep \o r.vehicle \o Sep \o r.enemy \o Sep
    \o (IF r.x THEN <<TIMES>> \o Sep ELSE <<>>)
    \o SimpleRewardText(r.sl, r.rp) \o <<NL>>

\* the rows of the generated awards and Activity Time tables; the second has
\* the largest research figure
\*     1:02    A 1    730 SL    68 RP
\*     10:07    B    5 SL    4294967295 RP
ShortRowPool ==
    {[time |-> <<0, 62>>, ts |-> <<"1", ":", "0", "2">>, name |-> <<"A", SP, "1">>,
      sl |-> <<0, 730>>, rp |-> <<0, 68>>],
     [time |-> <<0, 607>>, ts |-> <<"1", "0", ":", "0", "7">>, name |-> <<"B">>,
      sl |-> <<0, 5>>, rp |-> U32Max]}

ShortRowText(r) ==
    INDENT \o r.ts \o Sep \o r.name \o Sep \o SimpleRewardText(r.sl, r.rp) \o <<NL>>

\* the rows of the generated Time Played tables; the second has an itemized
\* research figure
\*     A 1    97%    8:21    680 RP
\*     C    100%    1:33    96 + (PA)96 = 192 RP
TimePlayedRowPool ==
    {[name |-> <<"A", SP, "1">>, activity |-> 97, pct |-> <<"9", "7">>,
      time |-> <<0, 501>>, ts |-> <<"8", ":", "2", "1">>,
      rp |-> <<0, 680>>, rptext |-> <<"6", "8", "0">> \o TagRP],
     [name |-> <<"C">>, activity |-> 100, pct |-> <<"1", "0", "0">>,
      time |-> <<0, 93>>, ts |-> <<"1", ":", "3", "3">>,
      rp |-> <<0, 192>>,
      rptext |-> <<"9", "6">> \o TagPlus \o <<"(", "P", "A", ")", "9", "6">>
                 \o TagEquals \o <<"1", "9", "2">> \o TagRP]}

TimePlayedRowText(r) ==
    INDENT \o r.name \o Sep \o r.pct \o <<"%">> \o Sep \o r.ts \o Sep \o r.rptext \o <<NL>>

\* the sequences of at most n elements of the set S
SeqsUpTo(S, n) == UNION {[1..k -> S] : k \in 0..n}

\* the texts of the rows, one after the other
RECURSIVE RowsText(_, _)
RowsText(rows, kind) ==
    IF rows = <<>> THEN <<>>
    ELSE (CASE kind = "detail" -> RowText(Head(rows))
            [] kind = "short" -> ShortRowText(Head(rows))
            [] kind = "time played" -> TimePlayedRowText(Head(rows)))
         \o RowsText(Tail(rows), kind)

\* the header line of a table that declares count rows
HeaderText(name, count) ==
    name \o Rep(SP, 6) \o Dec(<<0, count>>) \o Sep \o SimpleRewardText(<<0, 61>>, <<0, 5>>)
    \o Rep(SP, 2) \o <<NL>>

TimePlayedHeaderText(count) ==
    TagTimePlayed \o Rep(SP, 6) \o Dec(<<0, count>>) \o Rep(SP, 8)
    \o <<"8", "7", "2">> \o TagRP \o <<NL>>

NameScouting == <<"S", "c", "o", "u", "t", "i", "n", "g">>
NameAwards == <<"A", "w", "a", "r", "d", "s">>
NameActivityTime == <<"A", "c", "t", "i", "v", "i", "t", "y", SP, "T", "i", "m", "e">>

\* what follows the rows of a table: the empty line (and then nothing, or
\* the header of a next table), or no empty line (the end of the text, or
\* the header of a next table)
Tails == {"blank", "blank next", "eof", "next"}

TailText(tail) ==
    (IF tail \in {"blank", "blank next"} THEN <<NL>> ELSE <<>>)
    \o (IF tail \in {"next", "blank next"} THEN HeaderText(NameAwards, 1) ELSE <<>>)

\* an event table: count is the declared number of rows
TableCases == [count : 0..MaxRows, rows : SeqsUpTo(RowPool, MaxRows + 1), tail : Tails]

TableText(c) ==
    HeaderText(NameScouting, c.count) \o RowsText(c.rows, "detail") \o TailText(c.tail)

AwardTableCases ==
    [count : 0..MaxRows, rows : SeqsUpTo(ShortRowPool, MaxRows + 1), tail : Tails]

AwardTableText(c) ==
    HeaderText(NameAwards, c.count) \o RowsText(c.rows, "short") \o TailText(c.tail)

\* the detail rows of the generated tables of self-directed categories: a
\* row with an opponent column and two without
\*     1:02    A 1    B    1010 SL    61 RP
\*     3:14    A 1    400 SL
\*     3:14    C    400 SL    20 RP
EventRowPool ==
    {[time |-> <<0, 62>>, ts |-> <<"1", ":", "0", "2">>,
      vehicle |-> <<"A", SP, "1">>, enemy |-> Some(<<"B">>),
      sl |-> <<0, 1010>>, rp |-> <<0, 61>>],
     [time |-> <<0, 194>>, ts |-> <<"3", ":", "1", "4">>,
      vehicle |-> <<"A", SP, "1">>, enemy |-> None,
      sl |-> <<0, 400>>, rp |-> Zero],
     [time |-> <<0, 194>>, ts |-> <<"3", ":", "1", "4">>,
      vehicle |-> <<"C">>, enemy |-> None,
      sl |-> <<0, 400>>, rp |-> <<0, 20>>]}

EventRowText(r) ==
    INDENT \o r.ts \o Sep \o r.vehicle \o Sep
    \o (IF r.enemy = None THEN <<>> ELSE r.enemy[1] \o Sep)
    \o SimpleRewardText(r.sl, r.rp) \o <<NL>>

RECURSIVE EventRowsText(_)
EventRowsText(rows) ==
    IF rows = <<>> THEN <<>> ELSE EventRowText(Head(rows)) \o EventRowsText(Tail(rows))

NameCapture == <<"C", "a", "p", "t", "u", "r", "e">>

\* one event table with the rows it declares and its empty line
EventsCases == [rows : SeqsUpTo(EventRowPool, MaxRows) \ {<<>>}]

EventsText(c) ==
    HeaderText(NameCapture, Len(c.rows)) \o EventRowsText(c.rows) \o <<NL>>

\* the Activity Time table and the Time Played table, each with its declared
\* number of rows and its rows
VehicleTablesCases ==
    [count : 0..MaxRows, rows : SeqsUpTo(ShortRowPool, MaxRows),
     tpcount : 0..MaxRows, tprows : SeqsUpTo(TimePlayedRowPool, MaxRows)]

VehicleTablesText(c) ==
    HeaderText(NameActivityTime, c.count) \o RowsText(c.rows, "short") \o <<NL>>
    \o TimePlayedHeaderText(c.tpcount) \o RowsText(c.tprows, "time played") \o <<NL>>

-----------------------------------------------------------------------------
(* The primitive parsers applied to a text *)

NoResult == [st |-> "none", rest |-> 0, val |-> <<>>]

\* no stage of battle_report has been parsed
NoValues == <<>>

Builds == {"debug", "release"}

InitPrim ==
    /\ build \in Builds
    /\ pc = "start"
    /\ input = 1
    /\ parsed = NoValues
    /\ out = NoResult
    /\ \/ /\ unit = "timestamp"
          /\ inp \in TimestampCases
          /\ text = TimestampText(inp)
       \/ /\ unit = "parse_reward"
          /\ inp \in RewardCases
          /\ text = RewardText(inp)
       \/ /\ unit = "reward_column"
          /\ inp \in RewardCases
          /\ text = RewardText(inp) \o <<NL>>

ApplyTimestamp ==
    /\ pc = "start"
    /\ unit = "timestamp"
    /\ out' = Parse(timestamp, text, 1, build)
    /\ pc' = "done"
    /\ UNCHANGED <<text, build, unit, inp, input, parsed>>

ApplyParseReward ==
    /\ pc = "start"
    /\ unit = "parse_reward"
    /\ out' = Parse(parse_reward, text, 1, build)
    /\ pc' = "done"
    /\ UNCHANGED <<text, build, unit, inp, input, parsed>>

ApplyRewardColumn ==
    /\ pc = "start"
    /\ unit = "reward_column"
    /\ out' = Parse(reward_column, text, 1, build)
    /\ pc' = "done"
    /\ UNCHANGED <<text, build, unit, inp, input, parsed>>

NextPrim == ApplyTimestamp \/ ApplyParseReward \/ ApplyRewardColumn

SpecPrim == InitPrim /\ [][NextPrim]_vars

\* the parser consumed the whole text
Consumed == out.st = "ok" /\ out.rest = Len(text) + 1

-----------------------------------------------------------------------------
(* Properties of the reward grammar and of timestamps *)

RewardDone == pc = "done" /\ unit \in {"parse_reward", "reward_column"}

WideTotalMinutes(h, m) ==
    LET lo == h[2] * 60 + m[2]
        hi == h[1] * 60 + m[1] + (lo \div Limb)
    IN  <<hi \div Limb, hi % Limb, lo % Limb>>

\* C9: the timestamp "H:MM" parses to H * 60 + MM for all u32 H and MM, the
\* computation staying within the 32-bit result (no wrap-around, no abort).
C9_TimestampTotalMinutes ==
    (pc = "done" /\ unit = "timestamp") =>
        /\ out.st = "ok"
        /\ <<0, out.val[1], out.val[2]>> = WideTotalMinutes(inp.h, inp.m)

-----------------------------------------------------------------------------
(* The table parsers applied to a text *)

InitTables ==
    /\ build \in Builds
    /\ pc = "start"
    /\ input = 1
    /\ parsed = NoValues
    /\ out = NoResult
    /\ \/ /\ unit = "table"
          /\ inp \in TableCases
          /\ text = TableText(inp)
       \/ /\ unit = "award_table"
          /\ inp \in AwardTableCases
          /\ text = AwardTableText(inp)
       \/ /\ unit = "vehicle_tables"
          /\ inp \in VehicleTablesCases
          /\ text = VehicleTablesText(inp)
       \/ /\ unit = "parse_events"
          /\ inp \in EventsCases
          /\ text = EventsText(inp)

ApplyTable ==
    /\ pc = "start"
    /\ unit = "table"
    /\ out' = table(text, 1, build)
    /\ pc' = "done"
    /\ UNCHANGED <<text, build, unit, inp, input, parsed>>

ApplyAwardTable ==
    /\ pc = "start"
    /\ unit = "award_table"
    /\ out' = Parse(award_table, text, 1, build)
    /\ pc' = "done"
    /\ UNCHANGED <<text, build, unit, inp, input, parsed>>

ApplyVehicleTables ==
    /\ pc = "start"
    /\ unit = "vehicle_tables"
    /\ out' = Parse(vehicle_tables, text, 1, build)
    /\ pc' = "done"
    /\ UNCHANGED <<text, build, unit, inp, input, parsed>>

ApplyParseEvents ==
    /\ pc = "start"
    /\ unit = "parse_events"
    /\ out' = Parse(parse_events, text, 1, build)
    /\ pc' = "done"
    /\ UNCHANGED <<text, build, unit, inp, input, parsed>>

NextTables == ApplyTable \/ ApplyAwardTable \/ ApplyVehicleTables \/ ApplyParseEvents

SpecTables == InitTables /\ [][NextTables]_vars

-----------------------------------------------------------------------------
(* Properties of the tables *)

TableDone == pc = "done" /\ unit = "table"

\* C2: under a header that declares R rows, the table parser succeeds only by
\* consuming exactly R detail rows and the empty line after them; with R - 1
\* or R + 1 well-formed rows it fails, for every R >= 0.
C2_TableRowCount ==
    TableDone =>
        /\ out.st = "ok" <=>
              (Len(inp.rows) = inp.count /\ inp.tail \in {"blank", "blank next"})
        /\ out.st = "ok" =>
              /\ Len(out.val.rows) = inp.count
              /\ \A j \in 1..inp.count :
                    /\ out.val.rows[j].time = inp.rows[j].time
                    /\ out.val.rows[j].vehicle = inp.rows[j].vehicle
                    /\ out.val.rows[j].enemy_vehicle = inp.rows[j].enemy
              /\ out.rest = Len(HeaderText(NameScouting, inp.count))
                            + Len(RowsText(inp.rows, "detail")) + 2
        /\ (Len(inp.rows) = inp.count - 1 \/ Len(inp.rows) = inp.count + 1)
              => out.st = "err"

\* one row more than the header declares, and the table is refused
C2_Witness ==
    /\ TableDone
    /\ inp.count = MaxRows
    /\ Len(inp.rows) = MaxRows + 1
    /\ inp.tail = "blank"
    /\ out.st = "err"

\* C3: for the awards table, the Activity Time table and the Time Played
\* table too, a number of rows that differs from the count declared in the
\* header makes the parse fail.
C3_DeclaredCountShortTables ==
    /\ (pc = "done" /\ unit = "award_table" /\ Len(inp.rows) # inp.count)
          => out.st # "ok"
    /\ (pc = "done" /\ unit = "vehicle_tables"
        /\ (Len(inp.rows) # inp.count \/ Len(inp.tprows) # inp.tpcount))
          => out.st # "ok"

VehiclesDone == pc = "done" /\ unit = "vehicle_tables"

\* a + b as an exact number of three limbs
WideSum(a, b) ==
    LET lo == a[2] + b[2]
        hi == a[1] + b[1] + (lo \div Limb)
    IN  <<hi \div Limb, hi % Limb, lo % Limb>>

\* vehicle i of the output joins row i of the two tables, the research being
\* the exact sum of the two research figures
JoinedAt(i) ==
    /\ out.val[i].reward.silverlions = inp.rows[i].sl
    /\ <<0, out.val[i].reward.research[1], out.val[i].reward.research[2]>>
          = WideSum(inp.rows[i].rp, inp.tprows[i].rp)
    /\ out.val[i].activity = inp.tprows[i].activity
    /\ out.val[i].time_played = inp.tprows[i].time

\* C4: for N Activity Time rows and N Time Played rows the join is positional
\* and keeps the order: vehicle i has the silverlions of Activity Time row i,
\* as research the sum of the research of the two rows i, and the activity
\* and time played of Time Played row i.
C4_PositionalJoin ==
    (VehiclesDone /\ Len(inp.rows) = Len(inp.tprows) /\ Len(inp.rows) >= 1) =>
        /\ out.st = "ok"
        /\ Len(out.val) = Len(inp.rows)
        /\ \A i \in 1..Len(inp.rows) : JoinedAt(i)

\* the join is positional wherever every sum of research figures fits in 32
\* bits
PositionalJoinInRange ==
    (VehiclesDone /\ Len(inp.rows) = Len(inp.tprows) /\ Len(inp.rows) >= 1
     /\ \A i \in 1..Len(inp.rows) : WideSum(inp.rows[i].rp, inp.tprows[i].rp)[1] = 0) =>
        /\ out.st = "ok"
        /\ Len(out.val) = Len(inp.rows)
        /\ \A i \in 1..Len(inp.rows) : JoinedAt(i)

\* C5 as stated: the name of vehicle i is the name of Time Played row i.
C5_NameFromTimePlayed ==
    (VehiclesDone /\ out.st = "ok") =>
        \A i \in 1..Len(out.val) : out.val[i].name = inp.tprows[i].name

\* C5, amended: the name of vehicle i is the name of Activity Time row i; the
\* name of Time Played row i is not used.
C5_NameFromActivityTime ==
    (VehiclesDone /\ out.st = "ok") =>
        \A i \in 1..Len(out.val) : out.val[i].name = inp.rows[i].name

\* the two rows of the first vehicle carry different names
C5_Witness ==
    /\ VehiclesDone
    /\ out.st = "ok"
    /\ Len(out.val) >= 1
    /\ inp.rows[1].name # inp.tprows[1].name
    /\ out.val[1].name = inp.rows[1].name

\* C6: when the two tables have different numbers of rows the join fails; it
\* never returns a list cut to the shorter table.
C6_LengthMismatchFails ==
    (VehiclesDone /\ Len(inp.rows) # Len(inp.tprows)) => out.st # "ok"

-----------------------------------------------------------------------------
(* Input texts: battle reports *)

\* the stages of battle_report, in the order of the source, by the label of
\* their context
StageOrder ==
    <<"first line", "events", "awards", "activity and time played",
      "reward for winning", "other awards", "earned", "activity",
      "damaged vehicles", "automatic repair", "automatic purchase", "line ending",
      "researched vehicles", "researched modifications", "used items", "session id",
      "total">>

NStages == Len(StageOrder)

\* the stages that the source wraps in opt
OptionalStages == {5, 13, 14, 15}

\* the largest number of event tables of a generated report
MaxTables == 2

NameDamage == <<"D", "a", "m", "a", "g", "e">>

\* the first row of the generated awards table has no research figure; its
\* time is beyond the range of a u32 number of minutes when late
AwardRows(late) ==
    <<[time |-> <<0, 62>>,
       ts |-> IF late THEN <<"7", "1", "5", "8", "2", "7", "8", "9", ":", "0", "0">> ELSE <<"1", ":", "0", "2">>,
       name |-> <<"H", "e", "r", "o">>, sl |-> <<0, 100>>, rp |-> Zero],
      [time |-> <<0, 607>>, ts |-> <<"1", "0", ":", "0", "7">>, name |-> <<"B">>,
       sl |-> <<0, 5>>, rp |-> <<0, 61>>]>>

ActivityRow ==
    [time |-> <<0, 62>>, ts |-> <<"1", ":", "0", "2">>, name |-> <<"A", SP, "1">>,
     sl |-> <<0, 730>>, rp |-> <<0, 68>>]

TimePlayedRow ==
    [name |-> <<"C">>, activity |-> 100, pct |-> <<"1", "0", "0">>,
     time |-> <<0, 93>>, ts |-> <<"1", ":", "3", "3">>, rp |-> <<0, 192>>,
     rptext |-> <<"1", "9", "2">> \o TagRP]

\* the event tables of a generated report: the first has two rows, the
\* others one
EventTableName(n) == IF n = 1 THEN NameScouting ELSE NameDamage

EventTableRows(n) ==
    IF n = 1
    THEN <<[time |-> <<0, 62>>, ts |-> <<"1", ":", "0", "2">>,
            vehicle |-> <<"A", SP, "1">>, enemy |-> <<"B">>,
            x |-> FALSE, sl |-> <<0, 1010>>, rp |-> <<0, 61>>],
           [time |-> <<0, 607>>, ts |-> <<"1", "0", ":", "0", "7">>,
            vehicle |-> <<"C">>, enemy |-> <<"D", "-", "2">>,
            x |-> TRUE, sl |-> <<0, 5>>, rp |-> Zero]>>
    ELSE <<[time |-> <<0, 607>>, ts |-> <<"1", "0", ":", "0", "7">>,
            vehicle |-> <<"C">>, enemy |-> <<"B">>,
            x |-> FALSE, sl |-> <<0, 5>>, rp |-> Zero]>>

RECURSIVE EventTablesText(_)
EventTablesText(n) ==
    IF n = 0 THEN <<>>
    ELSE EventTablesText(n - 1)
         \o HeaderText(EventTableName(n), Len(EventTableRows(n)))
         \o RowsText(EventTableRows(n), "detail")
         \o <<NL>>

\* an optional section that is there in part only: its header without a
\* valid row ("no row"), with a row that is not one ("bad row"), without the
\* empty line that ends it ("no blank line"); for the used items, a header
\* that does not end its line ("bad row")
WholeSection == [stage |-> 0, how |-> "whole"]

PartialSections ==
    [stage : {5, 13, 14}, how : {"no row", "bad row", "no blank line"}]
    \cup [stage : {15}, how : {"bad row"}]

\* the text of the optional section k when it is there in part only
PartialSectionText(k, how) ==
    (CASE k = 5 -> TagRewardForWinning
       [] k = 13 -> TagResearchedUnit \o <<NL>>
       [] k = 14 -> TagResearchingProgress \o <<NL>>
       [] k = 15 -> TagUsedItems)
    \o (CASE how = "no row" -> <<>>
          [] how = "bad row" ->
                (CASE k = 5 -> Sep \o <<"6", "1", SP, "X", "P">>
                   [] k = 13 -> <<"A", SP, "1", ":", SP, "6", "1", SP, "S", "L">>
                   [] k = 14 -> <<"A", SP, "1", SP, "+", SP, "P", "a", "r", "t", "s", ":", SP, "5", SP, "R", "P">>
                   [] k = 15 -> <<"O", "i", "l">>) \o <<NL>>
          [] how = "no blank line" ->
                (CASE k = 5 -> Sep \o SimpleRewardText(<<0, 61>>, <<0, 5>>)
                   [] k = 13 -> <<"A", SP, "1", ":", SP, "6", "1", SP, "R", "P">>
                   [] k = 14 -> <<"A", SP, "1", SP, "-", SP, "P", "a", "r", "t", "s", ":", SP, "5", SP, "R", "P">>) \o <<NL>>)
    \o (IF how = "no blank line" THEN <<>> ELSE <<NL>>)

\* the first line of a report: whether it starts with the result ("result")
\* or with another word ("other"), whether " in the " follows, the name of
\* the mission, whether " mission!" follows, the text after that, and the
\* line terminators
UsualFirstLine ==
    [start |-> "result", inthe |-> TRUE, name |-> <<"M", SP, "1">>, bang |-> TRUE,
     more |-> <<>>, eols |-> <<NL, NL>>]

\* one line terminator is "\n" or "\r\n"
TwoTerminators == {<<NL, NL>>, <<CR, NL, NL>>, <<NL, CR, NL>>, <<CR, NL, CR, NL>>}

FirstLineCases ==
    {f \in [start : {"result", "other"}, inthe : BOOLEAN,
            name : {<<"M", SP, "1">>, <<>>, <<"[", "D", "]", SP, "P", ".", SP, "(", "w", ")">>},
            bang : BOOLEAN,
            more : {<<>>, <<SP, "b">> \o TagMission},
            eols : TwoTerminators \cup {<<>>, <<NL>>, <<CR, NL>>}] :
        f.more = <<>> \/ f.bang}

FirstLineText(c) ==
    (IF c.first.start = "other" THEN <<"D", "r", "a", "w">>
     ELSE IF c.victory THEN TagVictory ELSE TagDefeat)
    \o (IF c.first.inthe THEN TagInThe ELSE <<SP>>)
    \o c.first.name
    \o (IF c.first.bang THEN TagMission ELSE <<>>)
    \o c.first.more
    \o c.first.eols

\* the line of the total: the figures of SL and RP, and the figure of CRP:
\* a number, a number that is too large for a u32, a figure without unit,
\* a unit without figure, no text between the commas, or no figure at all
UsualTotal ==
    [sl |-> <<0, 61>>, crp |-> [form |-> "number", val |-> <<0, 5>>], rp |-> <<0, 10>>]

TotalCases ==
    [sl : {<<0, 61>>, U32Max},
     crp : [form : {"number"}, val : {<<0, 5>>, <<0, 9>>, U32Max}]
           \cup [form : {"too large", "no unit", "no figure", "empty", "absent"},
                 val : {Zero}],
     rp : {Zero, <<0, 10>>}]

TotalText(t) ==
    TagTotal \o Dec(t.sl) \o TagSL \o TagComma
    \o (CASE t.crp.form = "number" -> Dec(t.crp.val) \o TagCRP \o TagComma
          [] t.crp.form = "too large" -> <<"4", "2", "9", "4", "9", "6", "7", "2", "9", "6">> \o TagCRP \o TagComma
          [] t.crp.form = "no unit" -> <<"5">> \o TagComma
          [] t.crp.form = "no figure" -> <<"C", "R", "P">> \o TagComma
          [] t.crp.form = "empty" -> TagComma
          [] t.crp.form = "absent" -> <<>>)
    \o Dec(t.rp) \o TagRP

\* the figures of the generated lines "Activity: <N>%"
ActivityPool == {0, 1, 97, 100, 101, 200, 255, 256, 1000}

\* the header names of the awards table and of the Activity Time table of
\* the generated reports
TableNames ==
    [awards : {NameAwards, <<"M", "e", "d", "a", "l", "s">>},
     activity : {NameActivityTime, <<"U", "s", "a", "g", "e">>}]

\* the texts that follow the line of the total in the generated reports
TrailingPool ==
    {<<"x">>,
     <<NL, "V", "i", "c", "t", "o", "r", "y", SP, "i", "n", SP, "t", "h", "e", SP, "M", SP, "1", SP, "m", "i", "s", "s", "i", "o", "n", "!", NL, NL>>,
     <<"T", "o", "t", "a", "l", ":", SP, "1", SP, "S", "L", ",", SP, "1", SP, "C", "R", "P", ",", SP, "1", SP, "R", "P", NL>>,
     <<"A", SP, "1", SP, "-", SP, "P", "a", "r", "t", "s", ":", SP, "5", SP, "R", "P", NL, NL>>}

\* the largest number of names of a generated list of damaged vehicles
MaxDamaged == 2

NameA1 == <<"A", SP, "1">>

\* the lists of damaged vehicles of the generated reports
DamagedCases ==
    SeqsUpTo({NameA1, <<"B">>, <<"T", "-", "3", "4", SP, "(", "1", "9", "4", "2", ")">>},
             MaxDamaged) \ {<<>>}

\* the names separated by ", "
RECURSIVE NamesText(_)
NamesText(names) ==
    IF Len(names) = 1 THEN names[1]
    ELSE names[1] \o TagComma \o NamesText(Tail(names))

\* the text of stage k of the report c
SectionText(k, c) ==
    IF c.partial.stage = k THEN PartialSectionText(k, c.partial.how) ELSE
    CASE k = 1 -> FirstLineText(c)
      [] k = 2 -> EventTablesText(c.tables)
      [] k = 3 -> HeaderText(c.names.awards, 2) \o RowsText(AwardRows(c.late), "short") \o <<NL>>
      [] k = 4 -> HeaderText(c.names.activity, 1) \o RowsText(<<ActivityRow>>, "short")
                  \o <<NL>> \o TimePlayedHeaderText(1)
                  \o RowsText(<<TimePlayedRow>>, "time played") \o <<NL>>
      [] k = 5 -> TagRewardForWinning \o Sep \o SimpleRewardText(<<0, 61>>, <<0, 5>>)
                  \o <<NL, NL>>
      [] k = 6 -> TagOtherAwards \o Sep \o SimpleRewardText(<<0, 1010>>, Zero) \o <<NL, NL>>
      [] k = 7 -> TagEarned \o <<"6", "1", SP, "S", "L", ",", SP, "5", SP, "C", "R", "P">> \o <<NL>>
      [] k = 8 -> TagActivity \o Dec(<<0, c.activity>>) \o <<"%", NL>>
      [] k = 9 -> TagDamagedVehicles \o NamesText(c.damaged) \o <<NL>>
      [] k = 10 -> TagAutomaticRepair \o <<"5">> \o TagSL \o <<NL>>
      [] k = 11 -> TagAutomaticPurchase \o <<"7">> \o TagSL \o <<NL>>
      [] k = 12 -> <<NL>>
      [] k = 13 -> TagResearchedUnit \o <<NL>> \o <<"A", SP, "1", ":", SP, "6", "1", SP, "R", "P">> \o <<NL, NL>>
      [] k = 14 -> TagResearchingProgress \o <<NL>> \o <<"A", SP, "1", SP, "-", SP, "P", "a", "r", "t", "s", ":", SP, "5", SP, "R", "P">> \o <<NL, NL>>
      [] k = 15 -> TagUsedItems \o <<NL>> \o <<"O", "i", "l">> \o <<NL, NL>>
      [] k = 16 -> TagSession \o <<"3", "f", NL>>
      [] k = 17 -> TotalText(c.total) \o <<NL>>

\* the elements of a set of numbers in ascending order
RECURSIVE Ascending(_)
Ascending(S) ==
    IF S = {} THEN <<>>
    ELSE LET m == CHOOSE x \in S : \A y \in S : x <= y
         IN  <<m>> \o Ascending(S \ {m})

\* the stages of a report in the order of the source: all of them but some
\* of the optional ones
CanonicalOrders == {Ascending((1..NStages) \ S) : S \in SUBSET OptionalStages}

\* a report from which one more stage is left out
OmittedOrders ==
    {Ascending((1..NStages) \ (S \cup {k})) : S \in SUBSET OptionalStages, k \in 1..NStages}

\* a report in which two stages have changed places
SwappedOrders ==
    UNION {{[o EXCEPT ![j] = o[k], ![k] = o[j]] : j, k \in 1..Len(o)} : o \in CanonicalOrders}

\* a report: the stages in the order of the text, the number of event
\* tables, the result, whether the first award is late, the optional
\* section that is there in part only, the names of the damaged vehicles,
\* the first line, the line of the total, the figure of the activity,
\* the header names of the awards and Activity Time tables, the text after
\* the line of the total;
\* the generated reports differ from the usual one in some of these
UsualReport ==
    [order |-> Ascending(1..NStages), tables |-> 1, victory |-> TRUE, late |-> FALSE,
     partial |-> WholeSection, damaged |-> <<NameA1>>, first |-> UsualFirstLine,
     total |-> UsualTotal, activity |-> 97,
     names |-> [awards |-> NameAwards, activity |-> NameActivityTime],
     trailing |-> <<>>]

ReportCases ==
    {[UsualReport EXCEPT !.order = o, !.tables = t, !.victory = v, !.late = l] :
        o \in CanonicalOrders, t \in 0..MaxTables, v \in BOOLEAN, l \in BOOLEAN}
    \cup {[UsualReport EXCEPT !.order = o] : o \in OmittedOrders \cup SwappedOrders}
    \cup {c \in {[UsualReport EXCEPT !.order = o, !.partial = p] :
                    o \in CanonicalOrders, p \in PartialSections} :
            \E j \in 1..Len(c.order) : c.order[j] = c.partial.stage}
    \cup {[UsualReport EXCEPT !.damaged = d] : d \in DamagedCases}
    \cup {[UsualReport EXCEPT !.first = f, !.victory = v] :
            f \in FirstLineCases, v \in BOOLEAN}
    \cup {[UsualReport EXCEPT !.total = t] : t \in TotalCases}
    \cup {[UsualReport EXCEPT !.activity = a] : a \in ActivityPool}
    \cup {[UsualReport EXCEPT !.names = n, !.tables = t] :
            n \in TableNames, t \in 0..MaxTables}
    \cup {[UsualReport EXCEPT !.trailing = t, !.order = o] :
            t \in TrailingPool, o \in CanonicalOrders}

RECURSIVE SectionsText(_, _)
SectionsText(order, c) ==
    IF order = <<>> THEN <<>>
    ELSE SectionText(Head(order), c) \o SectionsText(Tail(order), c)

ReportText(c) == SectionsText(c.order, c) \o c.trailing

-----------------------------------------------------------------------------
(* parse applied to the text of a battle report *)

\* parse: what becomes of the result r of battle_report; an abort is not a
\* result of battle_report and is passed on as it is
Returned(r) ==
    IF r.st = "ok" THEN [st |-> "ok", rest |-> 0, val |-> r.val]
    ELSE IF r.st = "err" THEN [st |-> "err", rest |-> 0, val |-> r.val]
    ELSE Panic

InitReport ==
    /\ build \in Builds
    /\ unit = "parse"
    /\ inp \in ReportCases
    /\ text = ReportText(inp)
    /\ pc = "first line"
    /\ input = 1
    /\ parsed = NoValues
    /\ out = NoResult

\* one stage of battle_report: the parser g of the stage pc is applied to the
\* unconsumed text; its value is kept and the next stage follows, or its
\* error ends battle_report (the operator ?) and parse returns it; after
\* the last stage the BattleReport is made and parse returns it
Stage(label, g, next) ==
    /\ unit = "parse"
    /\ pc = label
    /\ LET r == Parse(g, text, input, build)
       IN  IF r.st = "ok"
           THEN /\ input' = r.rest
                /\ parsed' = Append(parsed, r.val)
                /\ pc' = next
                /\ out' = IF next = "done"
                          THEN Returned(Ok(r.rest, BattleReport(Append(parsed, r.val))))
                          ELSE out
           ELSE /\ out' = Returned(r)
                /\ pc' = "done"
                /\ UNCHANGED <<input, parsed>>
    /\ UNCHANGED <<text, build, unit, inp>>

FirstLine == Stage("first line", context("first line", result_line), "events")

EventsStage == Stage("events", context("events", parse_events), "awards")

AwardsStage == Stage("awards", context("awards", award_table), "activity and time played")

ActivityAndTimePlayed ==
    Stage("activity and time played",
          context("activity and time played", vehicle_tables), "reward for winning")

RewardForWinning ==
    Stage("reward for winning",
          context("reward for winning", opt(parse_reward_for_winning)), "other awards")

OtherAwards == Stage("other awards", context("other awards", parse_other_awards), "earned")

Earned == Stage("earned", context("earned", parse_earned), "activity")

Activity == Stage("activity", context("activity", parse_activity), "damaged vehicles")

DamagedVehicles ==
    Stage("damaged vehicles", context("damaged vehicles", parse_damaged_vehicles),
          "automatic repair")

AutomaticRepair ==
    Stage("automatic repair", context("automatic repair", parse_automatic_repair),
          "automatic purchase")

AutomaticPurchase ==
    Stage("automatic purchase", context("automatic purchase", parse_automatic_purchase),
          "line ending")

BlankLine == Stage("line ending", line_ending, "researched vehicles")

ResearchedVehicles ==
    Stage("researched vehicles",
          context("researched vehicles", opt(parse_researched_units)),
          "researched modifications")

ResearchedModifications ==
    Stage("researched modifications",
          context("researched modifications", opt(parse_researched_modifications)),
          "used items")

UsedItems == Stage("used items", context("used items", opt(parse_used_items)), "session id")

SessionId == Stage("session id", context("session id", parse_session_id), "total")

Total == Stage("total", context("total", parse_total), "done")

Next ==
    \/ FirstLine
    \/ EventsStage
    \/ AwardsStage
    \/ ActivityAndTimePlayed
    \/ RewardForWinning
    \/ OtherAwards
    \/ Earned
    \/ Activity
    \/ DamagedVehicles
    \/ AutomaticRepair
    \/ AutomaticPurchase
    \/ BlankLine
    \/ ResearchedVehicles
    \/ ResearchedModifications
    \/ UsedItems
    \/ SessionId
    \/ Total

Spec == InitReport /\ [][Next]_vars

-----------------------------------------------------------------------------
(* Properties of the events *)

EventsDone == unit = "parse_events" /\ pc = "done"

\* the events that the rows of a table named name stand for
EventsOfRows(name, rows) ==
    [j \in 1..Len(rows) |->
        [time |-> rows[j].time, kind |-> name, vehicle |-> rows[j].vehicle,
         enemy |-> rows[j].enemy, reward |-> Reward(rows[j].sl, rows[j].rp)]]

\* C13: the opponent of an event is optional: a detail row without an
\* opponent column parses and yields an event without opponent, a row with
\* an opponent column yields an event with that opponent.
C13_OptionalOpponent ==
    EventsDone =>
        /\ Consumed
        /\ out.val = EventsOfRows(NameCapture, inp.rows)

\* the rows of a table that all have an opponent column yield events with
\* these opponents
EventsWithOpponent ==
    EventsDone /\ (\A j \in 1..Len(inp.rows) : inp.rows[j].enemy # None) =>
        /\ Consumed
        /\ out.val = EventsOfRows(NameCapture, inp.rows)

-----------------------------------------------------------------------------
(* Properties of parse *)

\* parse has ended
ParseDone == unit = "parse" /\ pc = "done"

\* C1: for every input text parse returns either a complete Report, made of
\* the values of all the stages, or an error; when a stage fails an error
\* is returned and no Report.
C1_ReportOrError ==
    ParseDone =>
        \/ /\ out.st = "ok"
           /\ Len(parsed) = NStages
           /\ out.val = BattleReport(parsed)
        \/ /\ out.st = "err"
           /\ Len(parsed) < NStages

\* whenever parse returns, it returns a Report made of the values of all
\* the stages or, when a stage failed, an error
ReportOrErrorWhenReturned ==
    ParseDone /\ out.st # "panic" =>
        \/ /\ out.st = "ok"
           /\ Len(parsed) = NStages
           /\ out.val = BattleReport(parsed)
        \/ /\ out.st = "err"
           /\ Len(parsed) < NStages

\* the stages that occur in the order o of a text
StagesOf(o) == {o[j] : j \in 1..Len(o)}

\* the stages of o are in the order of the source and none is missing but
\* optional ones and the event tables (of which there may be none)
InFixedOrder(o) ==
    /\ \A j \in 1..Len(o) - 1 : o[j] < o[j + 1]
    /\ (1..NStages) \ (OptionalStages \cup {2}) \subseteq StagesOf(o)

PositionOf(o, k) ==
    IF k \in StagesOf(o) THEN CHOOSE j \in 1..Len(o) : o[j] = k ELSE 0

\* the Researched unit and Researching progress blocks of o that stand
\* between the "Used items: " header and the "Session: " line
InUsedItems(o) ==
    {k \in {13, 14} : /\ PositionOf(o, 15) > 0
                      /\ PositionOf(o, 15) < PositionOf(o, k)
                      /\ PositionOf(o, k) < PositionOf(o, 16)}

UsedItemsWithoutSession(o) == 15 \in StagesOf(o) /\ 16 \notin StagesOf(o)

TablesOf(c) == IF 2 \in StagesOf(c.order) THEN c.tables ELSE 0

\* the rows of the first n event tables of a text, one after the other,
\* each with the name of its table
RECURSIVE RowsOfTables(_)
RowsOfTables(n) ==
    IF n = 0 THEN <<>>
    ELSE RowsOfTables(n - 1)
         \o [j \in 1..Len(EventTableRows(n)) |->
                [time |-> EventTableRows(n)[j].time,
                 kind |-> EventTableName(n),
                 vehicle |-> EventTableRows(n)[j].vehicle,
                 enemy |-> Some(EventTableRows(n)[j].enemy),
                 reward |-> Reward(EventTableRows(n)[j].sl, EventTableRows(n)[j].rp)]]

\* the sum of the row counts that the first n event tables declare
RECURSIVE DeclaredRows(_)
DeclaredRows(n) ==
    IF n = 0 THEN 0 ELSE DeclaredRows(n - 1) + Len(EventTableRows(n))

\* C12: the events of a Report are the rows of all the event tables of the
\* text in the order of the text: as many as the tables declare, the events
\* of an earlier table before those of a later one, the rows of a table in
\* their order, each event with the header name of its table as its kind.
C12_EventsConcatenation ==
    ParseDone /\ out.st = "ok" =>
        /\ Len(out.val.events) = DeclaredRows(TablesOf(inp))
        /\ out.val.events = RowsOfTables(TablesOf(inp))

\* C12: a Report of a text with two event tables has the two rows of the
\* first and then the row of the second
C12_Witness ==
    /\ ParseDone
    /\ out.st = "ok"
    /\ TablesOf(inp) = 2
    /\ Len(out.val.events) = 3
    /\ out.val.events[1].kind = NameScouting
    /\ out.val.events[1].vehicle # out.val.events[2].vehicle
    /\ out.val.events[3].kind = NameDamage

\* C14: the line "Damaged Vehicles: <name1>, ..., <nameK>" yields the list of
\* the K names in the order of the text, one element for every name; no
\* element contains the separator ", ".
C14_DamagedVehiclesList ==
    ParseDone /\ out.st = "ok" => out.val.damaged_vehicles = inp.damaged

\* a line with a single name yields the list of that name
DamagedVehiclesSingle ==
    ParseDone /\ out.st = "ok" /\ Len(inp.damaged) = 1 =>
        out.val.damaged_vehicles = inp.damaged

\* the text of the report c starts with a result line: "Victory" or
\* "Defeat", " in the ", a text, " mission!", two line terminators
ValidFirstLine(c) ==
    /\ c.order # <<>>
    /\ Head(c.order) = 1
    /\ c.first.start = "result"
    /\ c.first.inthe
    /\ c.first.bang
    /\ c.first.more = <<>>
    /\ c.first.eols \in TwoTerminators

\* the error names the rule label
Blames(label) == out.st = "err" /\ \E j \in 1..Len(out.val) : out.val[j] = label

\* C15: the result line parses exactly when the text starts with "Victory"
\* or "Defeat", " in the ", a text with " mission!" and two line
\* terminators; the result is Win for "Victory" and Loss for "Defeat", the
\* mission name is the text between " in the " and the first " mission!";
\* otherwise (as without " mission!") the parse fails with an error of the
\* rule of the first line.
C15_ResultLine ==
    unit = "parse" /\ pc # "first line" =>
        IF ValidFirstLine(inp)
        THEN /\ Len(parsed) >= 1
             /\ parsed[1] = <<IF inp.victory THEN "Win" ELSE "Loss", inp.first.name>>
        ELSE /\ Len(parsed) = 0
             /\ Blames("first line")

\* C15: a first line "Defeat in the [D] P. (w) mission!" that ends with
\* "\r\n\n" is parsed as a Loss in that mission
C15_Witness ==
    /\ unit = "parse"
    /\ pc = "events"
    /\ ~inp.victory
    /\ inp.first.eols = <<CR, NL, NL>>
    /\ Len(inp.first.name) > 3
    /\ parsed[1] = <<"Loss", inp.first.name>>

\* C16: for the line "Total: <s> SL, <c> CRP, <r> RP" a successful parse
\* yields a Report whose balance is Reward{silverlions: s, research: r};
\* the figure c must be there and well formed, and it has no effect on the
\* Report, which is what it would be with a CRP figure of zero.
C16_TotalBalance ==
    ParseDone /\ out.st = "ok" =>
        /\ inp.total.crp.form = "number"
        /\ parsed[NStages] = <<Reward(inp.total.sl, inp.total.rp), inp.total.crp.val>>
        /\ out.val.balance = Reward(inp.total.sl, inp.total.rp)
        /\ out.val = BattleReport([parsed EXCEPT ![NStages] = <<@[1], Zero>>])

\* C16: the total "4294967295 SL, 4294967295 CRP, 10 RP" yields the balance
\* of 4294967295 SL and 10 RP
C16_Witness ==
    /\ ParseDone
    /\ out.st = "ok"
    /\ inp.total.sl = U32Max
    /\ inp.total.crp.val = U32Max
    /\ out.val.balance = Reward(U32Max, <<0, 10>>)

\* C17: in every Report of a successful parse the activity lies in the
\* range 0 to 100: a line "Activity: <N>%" with N > 100 yields no Report.
C17_ActivityRange ==
    ParseDone /\ out.st = "ok" => out.val.activity \in 0..100

\* the activity of a Report is the figure of the line, which is at most 255;
\* a line with a larger figure yields no Report
ActivityIsU8 ==
    ParseDone =>
        IF inp.activity <= 255
        THEN out.st = "ok" => out.val.activity = inp.activity
        ELSE Blames("activity")

\* C18: the awards stage accepts only a table whose header name is
\* "Awards" and the activity stage only one whose header name is "Activity
\* Time": a report with another name at that place yields no Report.
C18_HeaderNames ==
    ParseDone /\ out.st = "ok" =>
        /\ inp.names.awards = NameAwards
        /\ inp.names.activity = NameActivityTime

\* what parse returns for the text of the report c without the text after
\* the line of the total
ReturnedWithoutTrailing(c) ==
    Returned(Parse(battle_report, ReportText([c EXCEPT !.trailing = <<>>]), 1, build))

\* C19: parse does not require the text to end after the line of the total:
\* for an accepted text X and any text T, the parse of X followed by T
\* succeeds and returns the Report of X.
C19_TrailingIgnored ==
    ParseDone /\ inp.trailing # <<>> /\ ReturnedWithoutTrailing(inp).st = "ok"
        => out = ReturnedWithoutTrailing(inp)

\* text after the line of the total is ignored when the report has no
\* Researching progress block or the text has no " - "
TrailingIgnoredUnlessDash ==
    (/\ ParseDone
     /\ inp.trailing # <<>>
     /\ 14 \notin StagesOf(inp.order) \/ FindFrom(inp.trailing, 1, TagDash) = 0
     /\ ReturnedWithoutTrailing(inp).st = "ok")
        => out = ReturnedWithoutTrailing(inp)

\* the stages of battle_report, one after the other, return what the parser
\* battle_report returns
StagesAreBattleReport ==
    ParseDone => out = Returned(Parse(battle_report, text, 1, build))

=============================================================================
